---- MODULE Spec2Model ----
(***************************************************************************)
(* The UCT planner of L2Fsim (b03_uct_pilot) over the Beeler glider.       *)
(*                                                                         *)
(* Units.  Angles are counted in multiples of angle_rate_magnitude, so the *)
(* three commands change sigma by +1, 0, -1; times are counted in multiples *)
(* of the default time_step_width.  Vdot is counted in multiples           *)
(* of g = 9.81, so that get_reward_model's  zdot + V * Vdot / 9.81  is the *)
(* integer  zdot + V * Vdot.  The discount factor is the rational          *)
(* df / DfDen; pow(df,k) * x is kept exact by carrying every return of a   *)
(* rollout in units of 1/DfDen^RollCap and every node's average_reward in  *)
(* units of 1/DfDen^(RollCap+DepthCap).                                    *)
(***************************************************************************)
EXTENDS Integers, Sequences, FiniteSets, TLC

VARIABLES
    pc,        \* position inside b03_uct_pilot::operator()
    s0,        \* the state handed to operator() (the aircraft's state)
    a,         \* the command handed to operator() (the aircraft's command)
    computational_budget,
    horizon,
    df,        \* numerator of the discount factor, over DfDen
    tree,      \* the nodes owned by the root v0, by path of child positions
    i,         \* loop counter of operator()
    v,         \* the local node `v` of the loop body
    reward,    \* the local double `reward` of the loop body
    cur,       \* tree_policy: path of its argument v0 in the current recursion
    t,         \* default_policy: loop counter
    s_t,       \* default_policy: current state
    bcur,      \* backup: path of its argument in the current recursion
    front,     \* path of the tree node tree_policy ended at (history)
    tree_pre,  \* the tree when backup was entered (history)
    reward_in, \* the value `reward` held when default_policy was entered (history)
    steps,     \* default_policy: the states s_tp produced so far (history)
    terms,     \* default_policy: the [t, r] added to reward so far (history)
    epoch,     \* 1 for the first invocation, 2 for the repeated one
    rec,       \* whether the random stream is recorded for a repeated invocation
    log,       \* the raw draws of the first invocation, in order
    pos,       \* the repeated invocation's position in log
    saved,     \* what the first invocation built and returned
    pl,        \* the pilot handed to the stepper
    current_time,            \* the stepper's caller's clock
    stepper_time_step_width, \* the time_step_width handed to the stepper
    stepper_dt,              \* the integrator's member dt
    state_log, \* what the stepper saved of the state, one entry per step
    sub_steps  \* sub-steps made by the stepper's last transition (history)

vars == <<pc, s0, a, computational_budget, horizon, df, tree, i, v, reward, cur,
          t, s_t, bcur, front, tree_pre, reward_in, steps, terms,
          epoch, rec, log, pos, saved,
          pl, current_time, stepper_time_step_width, stepper_dt, state_log, sub_steps>>

\* what belongs to the stepper and its caller
stepper_vars ==
    <<pl, current_time, stepper_time_step_width, stepper_dt, state_log, sub_steps>>

----------------------------------------------------------------------------
(* Bounds of the model *)

MaxBudget == 4

MaxHorizon == 3

ReplayBudget == 2

ReplayHorizon == 1

\* the budget of the calls followed past the first descent below the root
DeepBudget == 5

\* the stepper is followed for this many steps
MaxSteps == 2

\* largest time_step_width and largest dt handed to the stepper
MaxWidth == 3

MaxDt == 2

(* Program constants *)

angle_rate_magnitude == 1

uct_parameter == 1

time_step_width == 1

sub_time_step_width == 1

DfDen == 2

\* altitude below which a state is terminal
Ground == 0

\* distance to the centre beyond which the stepper asks for the recovery command,
\* 1200 m in units of 100 m
CenterRange == 12

\* the integrator's sub-time-step-width, taken equal to one time step
integrator_dt == 1

\* heuristic_pilot's angle_rate_magnitude, .03, in multiples of the planner's .01
heuristic_angle_rate_magnitude == 3

\* the D-controller of heuristic_pilot: gammadot is counted in the unit that makes
\* kd * gammadot a number of angle units
kd == 1

gammadot_ref == 0

\* sigma bound of out_of_range, 0.4 rad in multiples of angle_rate_magnitude = .01
SigmaRecover == 40

\* largest exponents pow(df, .) is raised to: a rollout step index, a node depth
RollCap == MaxHorizon

DepthCap == MaxBudget

\* what rand() may return; reduced modulo the size it indexes
RawDraws == 0 .. 2

\* what an uninitialised double may hold, in units of 1/DfDen^RollCap
Uninitialised == {0, 3 * DfDen ^ RollCap}

Root == << >>

\* the indeterminate pointer of a node that was given no parent
NullParent == <<0>>

----------------------------------------------------------------------------
(* beeler_glider_command, beeler_glider_state, beeler_glider *)

beeler_glider_command(dalpha, dbeta, dsigma) ==
    [dalpha |-> dalpha, dbeta |-> dbeta, dsigma |-> dsigma]

Abs(x) == IF x < 0 THEN -x ELSE x

apply_command(s, u) ==
    [s EXCEPT !.alpha = @ + u.dalpha, !.beta = @ + u.dbeta, !.sigma = @ + u.dsigma]

\* The time derivatives of the state: a finite stand-in for the aerodynamics,
\* deterministic in the state as the code is.  Wings level, the glider holds its
\* altitude and loses speed; banked, it sinks.
update_state_dynamic(s) ==
    [s EXCEPT !.xdot = s.V, !.ydot = 0, !.gammadot = s.alpha,
              !.zdot = -(Abs(s.sigma) + Abs(s.alpha)), !.Vdot = s.sigma - 1]

\* beeler_glider_state::apply_dynamic: the Euler step of the static part
apply_dynamic(s, dt) ==
    [s EXCEPT !.x = @ + s.xdot * dt, !.y = @ + s.ydot * dt,
              !.z = @ + s.zdot * dt, !.V = @ + s.Vdot * dt]

update_time(s, time) == [s EXCEPT !.time = time]

\* the loop of transition_function from its turn n on: the state, the clock and
\* the number of turns made when it ends
RECURSIVE SubSteps(_, _, _, _, _)
SubSteps(s, n, current, tsw, dt) ==
    IF n * dt < tsw
    THEN SubSteps(update_time(apply_dynamic(update_state_dynamic(s), dt), current + dt),
                  n + 1, current + dt, tsw, dt)
    ELSE [s |-> s, current_time |-> current, n |-> n]

\* transition_function with the command applied after the sub-steps
transition_function_command_last(s, u, current, tsw, dt) ==
    LET end == SubSteps(s, 0, current, tsw, dt)
    IN  [end EXCEPT !.s = apply_command(@, u)]

\* euler_integrator::transition_function on an aircraft holding state s and
\* command u, with the clock at current: the aircraft's state and the clock
\* afterwards
transition_function(s, u, current, tsw, dt) ==
    SubSteps(apply_command(s, u), 0, current, tsw, dt)

----------------------------------------------------------------------------
(* b03_node *)

\* a default-constructed beeler_glider_state
DefaultState ==
    [x |-> 0, y |-> 0, z |-> 0, sigma |-> 0, alpha |-> 0, beta |-> 0,
     xdot |-> 0, ydot |-> 0, zdot |-> 0, V |-> 0, Vdot |-> 0, gammadot |-> 0,
     time |-> 0]

\* A node is held by value in the vector `children` of its parent. `address` says
\* where the node is stored, as the number of times its storage has been moved
\* since it was pushed; the pointer `parent` is the path of the parent together
\* with parent_address, the address the parent had when the pointer was taken.
b03_node(s, expendable_actions, average_reward, number_of_visits, depth) ==
    [s |-> s,
     actions |-> expendable_actions,
     expendable_actions |-> expendable_actions,
     average_reward |-> average_reward,
     number_of_visits |-> number_of_visits,
     depth |-> depth,
     incoming_action |-> beeler_glider_command(0, 0, 0),
     parent |-> NullParent,
     parent_address |-> 0,
     address |-> 0]

\* the positions of the elements of node p's vector `children`
ChildIndices(tr, p) ==
    {k \in 1 .. Len(tr[p].actions) : Append(p, k) \in DOMAIN tr}

NumChildren(tr, p) == Cardinality(ChildIndices(tr, p))

\* is_fully_expanded with the comparison off by one
is_fully_expanded_off_by_one(tr, p) ==
    NumChildren(tr, p) >= Len(tr[p].actions) - 1

is_fully_expanded(tr, p) ==
    NumChildren(tr, p) = Len(tr[p].actions)

get_last_child(tr, p) == tr[Append(p, NumChildren(tr, p))]

get_state(node) == node.s

----------------------------------------------------------------------------
(* utils: rand_indice, rand_element, sort_indices *)

\* a 0-based position in a non-empty vector, from the raw draw r
rand_indice(vec, r) == r % Len(vec)

rand_element(vec, r) == vec[rand_indice(vec, r) + 1]

SeqMax(scores) ==
    CHOOSE m \in {scores[k] : k \in 1 .. Len(scores)} :
        \A k \in 1 .. Len(scores) : scores[k] <= m

RECURSIVE MaxFrom(_, _, _)
MaxFrom(scores, m, k) ==
    IF k > Len(scores) THEN << >>
    ELSE IF scores[k] = m THEN <<k>> \o MaxFrom(scores, m, k + 1)
    ELSE MaxFrom(scores, m, k + 1)

\* the 1-based positions of the maximal elements of a non-empty vector
sort_indices(scores) == MaxFrom(scores, SeqMax(scores), 1)

----------------------------------------------------------------------------
(* b03_uct_pilot *)

is_terminal(s) == s.z < Ground

\* pow(df, k) in units of 1/DfDen^cap
Pow(k, cap) == (df ^ k) * (DfDen ^ (cap - k))

\* floor(100 * ln(n)), n >= 1
Ln100(n) ==
    CASE n = 1 -> 0 [] n = 2 -> 69 [] n = 3 -> 109 [] n = 4 -> 138 [] n = 5 -> 160
      [] n = 6 -> 179 [] n = 7 -> 194 [] n = 8 -> 207 [] n = 9 -> 219 [] OTHER -> 230

\* floor(sqrt(n)), n >= 0
ISqrt(n) == CHOOSE k \in 0 .. n : k * k <= n /\ (k + 1) * (k + 1) > n

\* the score of the child at path p, in units of 1/(10 * DfDen^(RollCap+DepthCap))
get_uct_score(tr, p) ==
    LET nchild == tr[p].number_of_visits
        nparent == tr[tr[p].parent].number_of_visits
    IN  10 * tr[p].average_reward
          + (DfDen ^ (RollCap + DepthCap)) * 2 * uct_parameter
              * ISqrt((2 * Ln100(nparent)) \div nchild)

\* get_best_uct_child drawing among all the children
get_best_uct_child_any(tr, p, r) ==
    LET all_indices == [k \in 1 .. NumChildren(tr, p) |-> k]
    IN  Append(p, rand_element(all_indices, r))

\* the path of the child get_best_uct_child returns a reference on
get_best_uct_child(tr, p, r) ==
    LET scores == [k \in 1 .. NumChildren(tr, p) |-> get_uct_score(tr, Append(p, k))]
        max_indices == sort_indices(scores)
    IN  Append(p, rand_element(max_indices, r))

get_expendable_actions ==
    << beeler_glider_command(0, 0, angle_rate_magnitude),
       beeler_glider_command(0, 0, 0),
       beeler_glider_command(0, 0, -angle_rate_magnitude) >>

get_transition_model(s, act) ==
    transition_function(s, act, s.time, time_step_width, sub_time_step_width).s

get_reward_model(st, at, stp) == st.zdot + st.V * st.Vdot

\* children.push_back(child) on the node at path p. The vector may have to move
\* the elements it holds to a larger storage; that is taken to happen at every
\* push_back, and to move all that the elements own: any other run moves a part
\* of these nodes only.
push_back(tr, p, child) ==
    LET moved == [q \in DOMAIN tr |->
                     IF Len(q) > Len(p) /\ SubSeq(q, 1, Len(p)) = p
                     THEN [tr[q] EXCEPT !.address = @ + 1]
                     ELSE tr[q]]
    IN  (Append(p, NumChildren(tr, p) + 1) :> child) @@ moved

RemoveAt(vec, k) == SubSeq(vec, 1, k - 1) \o SubSeq(vec, k + 1, Len(vec))

\* create_new_child without line 167: the action tried stays in expendable_actions
create_new_child_no_erase(tr, p, r) ==
    LET indice == rand_indice(tr[p].expendable_actions, r)
        act == tr[p].expendable_actions[indice + 1]
        s_prime == get_transition_model(tr[p].s, act)
        new_child == [b03_node(s_prime, get_expendable_actions, 0, 1, tr[p].depth + 1)
                        EXCEPT !.incoming_action = act, !.parent = p,
                               !.parent_address = tr[p].address]
    IN  push_back(tr, p, new_child)

\* create_new_child building the child with a visit count of 0
create_new_child_unvisited(tr, p, r) ==
    LET indice == rand_indice(tr[p].expendable_actions, r)
        act == tr[p].expendable_actions[indice + 1]
        s_prime == get_transition_model(tr[p].s, act)
        new_child == [b03_node(s_prime, get_expendable_actions, 0, 0, tr[p].depth + 1)
                        EXCEPT !.incoming_action = act, !.parent = p,
                               !.parent_address = tr[p].address]
        erased == [tr EXCEPT ![p].expendable_actions = RemoveAt(@, indice + 1)]
    IN  push_back(erased, p, new_child)

\* create_new_child pushing the new child twice
create_new_child_twice(tr, p, r) ==
    LET indice == rand_indice(tr[p].expendable_actions, r)
        act == tr[p].expendable_actions[indice + 1]
        s_prime == get_transition_model(tr[p].s, act)
        new_child == [b03_node(s_prime, get_expendable_actions, 0, 1, tr[p].depth + 1)
                        EXCEPT !.incoming_action = act, !.parent = p,
                               !.parent_address = tr[p].address]
        erased == [tr EXCEPT ![p].expendable_actions = RemoveAt(@, indice + 1)]
    IN  push_back(push_back(erased, p, new_child), p, new_child)

\* create_new_child erasing the action tried and the one after it
create_new_child_erase_two(tr, p, r) ==
    LET indice == rand_indice(tr[p].expendable_actions, r)
        act == tr[p].expendable_actions[indice + 1]
        s_prime == get_transition_model(tr[p].s, act)
        new_child == [b03_node(s_prime, get_expendable_actions, 0, 1, tr[p].depth + 1)
                        EXCEPT !.incoming_action = act, !.parent = p,
                               !.parent_address = tr[p].address]
        erased == [tr EXCEPT ![p].expendable_actions =
                                 RemoveAt(RemoveAt(@, indice + 1), indice + 1)]
    IN  push_back(erased, p, new_child)

\* create_new_child giving the child the depth of its parent
create_new_child_same_depth(tr, p, r) ==
    LET indice == rand_indice(tr[p].expendable_actions, r)
        act == tr[p].expendable_actions[indice + 1]
        s_prime == get_transition_model(tr[p].s, act)
        new_child == [b03_node(s_prime, get_expendable_actions, 0, 1, tr[p].depth)
                        EXCEPT !.incoming_action = act, !.parent = p,
                               !.parent_address = tr[p].address]
        erased == [tr EXCEPT ![p].expendable_actions = RemoveAt(@, indice + 1)]
    IN  push_back(erased, p, new_child)

\* create_new_child erasing the first untried action, whichever was drawn
create_new_child_erase_first(tr, p, r) ==
    LET indice == rand_indice(tr[p].expendable_actions, r)
        act == tr[p].expendable_actions[indice + 1]
        s_prime == get_transition_model(tr[p].s, act)
        new_child == [b03_node(s_prime, get_expendable_actions, 0, 1, tr[p].depth + 1)
                        EXCEPT !.incoming_action = act, !.parent = p,
                               !.parent_address = tr[p].address]
        erased == [tr EXCEPT ![p].expendable_actions = RemoveAt(@, 1)]
    IN  push_back(erased, p, new_child)

\* the tree after create_new_child on the node at path p, with raw draw r
create_new_child(tr, p, r) ==
    LET indice == rand_indice(tr[p].expendable_actions, r)
        act == tr[p].expendable_actions[indice + 1]
        s_prime == get_transition_model(tr[p].s, act)
        new_child == [b03_node(s_prime, get_expendable_actions, 0, 1, tr[p].depth + 1)
                        EXCEPT !.incoming_action = act, !.parent = p,
                               !.parent_address = tr[p].address]
        erased == [tr EXCEPT ![p].expendable_actions = RemoveAt(@, indice + 1)]
    IN  push_back(erased, p, new_child)

\* one call of backup on a node: the node afterwards
backup_node(node, rew) ==
    [node EXCEPT !.number_of_visits = @ + 1,
                 !.average_reward = @ + Pow(node.depth, DepthCap) * rew]

\* get_best_action scoring the children by number_of_visits
get_best_action_by_visits(tr, r) ==
    LET scores == [k \in 1 .. NumChildren(tr, Root) |-> tr[<<k>>].number_of_visits]
        max_indices == sort_indices(scores)
    IN  tr[<<rand_element(max_indices, r)>>].incoming_action

\* the command get_best_action writes, with raw draw r (the root has a child)
get_best_action(tr, r) ==
    LET scores == [k \in 1 .. NumChildren(tr, Root) |-> tr[<<k>>].average_reward]
        max_indices == sort_indices(scores)
    IN  tr[<<rand_element(max_indices, r)>>].incoming_action

out_of_range(s, cmd) ==
    [cmd EXCEPT !.dalpha = 0, !.dbeta = 0,
                !.dsigma = IF s.sigma < SigmaRecover THEN angle_rate_magnitude ELSE 0]

----------------------------------------------------------------------------
(* The random stream *)

\* what the next call of rand() may return: anything in the first invocation,
\* the recorded stream in the repeated one (same seed)
NextDraws ==
    IF epoch = 2 /\ pos <= Len(log) THEN {log[pos]} ELSE RawDraws

Drawn(r) ==
    /\ log' = IF rec /\ epoch = 1 THEN Append(log, r) ELSE log
    /\ pos' = IF epoch = 2 THEN pos + 1 ELSE pos

NoDraw == UNCHANGED <<log, pos>>

----------------------------------------------------------------------------
(* Initial states: a constructed pilot and an aircraft state *)

\* the aircraft just below the ground (terminal) or on it
InitialStates ==
    {[DefaultState EXCEPT !.z = z0, !.zdot = -1, !.V = 4] : z0 \in {Ground - 1, Ground}}

InitWith(budgets, horizons, recording) ==
    /\ pc = "idle"
    /\ s0 \in InitialStates
    /\ a = beeler_glider_command(0, 0, 0)
    /\ computational_budget \in budgets
    /\ horizon \in horizons
    /\ df \in 1 .. DfDen
    /\ tree = (Root :> b03_node(DefaultState, get_expendable_actions, 0, 0, 0))
    /\ i = 0
    /\ v = b03_node(DefaultState, get_expendable_actions, 0, 0, 0)
    /\ reward = 0
    /\ cur = Root
    /\ t = 0
    /\ s_t = DefaultState
    /\ bcur = Root
    /\ front = Root
    /\ tree_pre = tree
    /\ reward_in = 0
    /\ steps = << >>
    /\ terms = << >>
    /\ epoch = 1
    /\ rec = recording
    /\ log = << >>
    /\ pos = 1
    /\ saved = [pc |-> "idle", tree |-> tree, a |-> a]
    /\ pl = "b03_uct_pilot"
    /\ current_time = 0
    /\ stepper_time_step_width = time_step_width
    /\ stepper_dt = integrator_dt
    /\ state_log = << >>
    /\ sub_steps = 0

Init == InitWith(0 .. MaxBudget, 0 .. MaxHorizon, FALSE)

InitLive == InitWith(0 .. MaxBudget, 0 .. MaxHorizon - 1, FALSE)

InitDeep == InitWith({DeepBudget}, 0 .. ReplayHorizon, FALSE)

InitReplay == InitWith(0 .. ReplayBudget, 0 .. ReplayHorizon, TRUE)

----------------------------------------------------------------------------
(* b03_uct_pilot::operator() *)

\* operator() with the root a member that outlives the call: the root is reset,
\* the nodes below it are those the previous call left
Call_keeps_tree ==
    /\ UNCHANGED stepper_vars
    /\ pc = "idle"
    /\ tree' = [tree EXCEPT ![Root] = b03_node(s0, get_expendable_actions, 0, 1, 0)]
    /\ i' = 0
    /\ pc' = "loop"
    /\ NoDraw
    /\ UNCHANGED <<s0, a, computational_budget, horizon, df, v, reward, cur, t, s_t,
                   bcur, front, tree_pre, reward_in, steps, terms, epoch, rec, saved>>

\* lines 253-255: the root node
Call ==
    /\ UNCHANGED stepper_vars
    /\ pc = "idle"
    /\ tree' = (Root :> b03_node(s0, get_expendable_actions, 0, 1, 0))
    /\ i' = 0
    /\ pc' = "loop"
    /\ NoDraw
    /\ UNCHANGED <<s0, a, computational_budget, horizon, df, v, reward, cur, t, s_t,
                   bcur, front, tree_pre, reward_in, steps, terms, epoch, rec, saved>>

\* the loop of operator() with the test i <= computational_budget
BeginSimulation_one_more ==
    /\ UNCHANGED stepper_vars
    /\ pc = "loop"
    /\ i <= computational_budget
    /\ v' = b03_node(DefaultState, get_expendable_actions, 0, 0, 0)
    /\ reward' \in Uninitialised
    /\ cur' = Root
    /\ pc' = "tree_policy"
    /\ NoDraw
    /\ UNCHANGED <<s0, a, computational_budget, horizon, df, tree, i, t, s_t,
                   bcur, front, tree_pre, reward_in, steps, terms, epoch, rec, saved>>

\* lines 257-260: one more turn of the loop; `reward` is declared and not set
BeginSimulation ==
    /\ UNCHANGED stepper_vars
    /\ pc = "loop"
    /\ i < computational_budget
    /\ v' = b03_node(DefaultState, get_expendable_actions, 0, 0, 0)
    /\ reward' \in Uninitialised
    /\ cur' = Root
    /\ pc' = "tree_policy"
    /\ NoDraw
    /\ UNCHANGED <<s0, a, computational_budget, horizon, df, tree, i, t, s_t,
                   bcur, front, tree_pre, reward_in, steps, terms, epoch, rec, saved>>

\* entry of default_policy, lines 205-207, on the state of the local node nv
EnterDefaultPolicy(nv) ==
    /\ t' = 0
    /\ s_t' = get_state(nv)
    /\ reward_in' = reward
    /\ steps' = << >>
    /\ terms' = << >>
    /\ pc' = "default_policy"

\* tree_policy, case 1 (lines 187-188): v = v0 copies the terminal node
TreePolicyTerminal ==
    /\ UNCHANGED stepper_vars
    /\ pc = "tree_policy"
    /\ is_terminal(tree[cur].s)
    /\ v' = tree[cur]
    /\ front' = cur
    /\ EnterDefaultPolicy(v')
    /\ NoDraw
    /\ UNCHANGED <<s0, a, computational_budget, horizon, df, tree, i, reward, cur,
                   bcur, tree_pre, epoch, rec, saved>>

\* tree_policy, case 2, taken as soon as the node has a child
TreePolicyDescend_early ==
    /\ UNCHANGED stepper_vars
    /\ pc = "tree_policy"
    /\ ~is_terminal(tree[cur].s)
    /\ NumChildren(tree, cur) >= 1
    /\ \E r \in NextDraws :
          /\ cur' = get_best_uct_child(tree, cur, r)
          /\ Drawn(r)
    /\ UNCHANGED <<pc, s0, a, computational_budget, horizon, df, tree, i, v, reward,
                   t, s_t, bcur, front, tree_pre, reward_in, steps, terms,
                   epoch, rec, saved>>

\* tree_policy, case 2 (lines 190-191): recursion on the best child
TreePolicyDescend ==
    /\ UNCHANGED stepper_vars
    /\ pc = "tree_policy"
    /\ ~is_terminal(tree[cur].s)
    /\ is_fully_expanded(tree, cur)
    /\ \E r \in NextDraws :
          /\ cur' = get_best_uct_child(tree, cur, r)
          /\ Drawn(r)
    /\ UNCHANGED <<pc, s0, a, computational_budget, horizon, df, tree, i, v, reward,
                   t, s_t, bcur, front, tree_pre, reward_in, steps, terms,
                   epoch, rec, saved>>

\* tree_policy, case 3, with the transition computed in place on the state the
\* caller handed in instead of on the aircraft model the pilot owns
TreePolicyExpand_in_place ==
    /\ UNCHANGED stepper_vars
    /\ pc = "tree_policy"
    /\ ~is_terminal(tree[cur].s)
    /\ ~is_fully_expanded(tree, cur)
    /\ \E r \in NextDraws :
          /\ tree' = create_new_child(tree, cur, r)
          /\ Drawn(r)
    /\ v' = get_last_child(tree', cur)
    /\ s0' = get_state(v')
    /\ front' = Append(cur, NumChildren(tree', cur))
    /\ EnterDefaultPolicy(v')
    /\ UNCHANGED <<a, computational_budget, horizon, df, i, reward, cur,
                   bcur, tree_pre, epoch, rec, saved>>

\* tree_policy, case 3, entered without the terminal test of line 187
TreePolicyExpand_untested ==
    /\ UNCHANGED stepper_vars
    /\ pc = "tree_policy"
    /\ ~is_fully_expanded(tree, cur)
    /\ \E r \in NextDraws :
          /\ tree' = create_new_child(tree, cur, r)
          /\ Drawn(r)
    /\ v' = get_last_child(tree', cur)
    /\ front' = Append(cur, NumChildren(tree', cur))
    /\ EnterDefaultPolicy(v')
    /\ UNCHANGED <<s0, a, computational_budget, horizon, df, i, reward, cur,
                   bcur, tree_pre, epoch, rec, saved>>

\* tree_policy, case 3 (lines 193-194): a new child, copied into v
TreePolicyExpand ==
    /\ UNCHANGED stepper_vars
    /\ pc = "tree_policy"
    /\ ~is_terminal(tree[cur].s)
    /\ ~is_fully_expanded(tree, cur)
    /\ \E r \in NextDraws :
          /\ tree' = create_new_child(tree, cur, r)
          /\ Drawn(r)
    /\ v' = get_last_child(tree', cur)
    /\ front' = Append(cur, NumChildren(tree', cur))
    /\ EnterDefaultPolicy(v')
    /\ UNCHANGED <<s0, a, computational_budget, horizon, df, i, reward, cur,
                   bcur, tree_pre, epoch, rec, saved>>

\* lines 211-212 swapped: the reward is added before the terminal test
RolloutTurn_add_before_test(rew, trm, st, at, stp, k) ==
    [reward |-> rew + Pow(k, RollCap) * get_reward_model(st, at, stp),
     terms |-> Append(trm, [t |-> k, r |-> get_reward_model(st, at, stp)])]

\* what lines 211-212 of one turn of default_policy's loop do to `reward` (and
\* to the list of the terms added to it), with stp the state the turn produced
RolloutTurn(rew, trm, st, at, stp, k) ==
    IF is_terminal(stp)
    THEN [reward |-> rew, terms |-> trm]
    ELSE [reward |-> rew + Pow(k, RollCap) * get_reward_model(st, at, stp),
          terms |-> Append(trm, [t |-> k, r |-> get_reward_model(st, at, stp)])]

\* default_policy, one turn of its loop (lines 208-214)
DefaultPolicyStep ==
    /\ UNCHANGED stepper_vars
    /\ pc = "default_policy"
    /\ t < horizon
    /\ \E r \in NextDraws :
          LET a_t == rand_element(get_expendable_actions, r)
              s_tp == get_transition_model(s_t, a_t)
              turn == RolloutTurn(reward, terms, s_t, a_t, s_tp, t)
          IN  /\ steps' = Append(steps, s_tp)
              /\ reward' = turn.reward
              /\ terms' = turn.terms
              /\ IF is_terminal(s_tp)
                 THEN /\ pc' = "backup"
                      /\ tree_pre' = tree
                      /\ UNCHANGED <<t, s_t>>
                 ELSE /\ s_t' = s_tp
                      /\ t' = t + 1
                      /\ UNCHANGED <<pc, tree_pre>>
              /\ Drawn(r)
    /\ UNCHANGED <<s0, a, computational_budget, horizon, df, tree, i, v, cur,
                   bcur, front, reward_in, epoch, rec, saved>>

\* default_policy, the loop ends at the horizon (line 208)
DefaultPolicyEnd ==
    /\ UNCHANGED stepper_vars
    /\ pc = "default_policy"
    /\ ~(t < horizon)
    /\ pc' = "backup"
    /\ tree_pre' = tree
    /\ NoDraw
    /\ UNCHANGED <<s0, a, computational_budget, horizon, df, tree, i, v, reward, cur,
                   t, s_t, bcur, front, reward_in, steps, terms, epoch, rec, saved>>

\* default_policy has returned: its locals are gone
LeaveDefaultPolicy ==
    /\ t' = 0
    /\ s_t' = DefaultState
    /\ reward_in' = 0
    /\ steps' = << >>
    /\ terms' = << >>

\* backup(v, reward), lines 224-226, on the local node v of operator()
BackupLocal ==
    /\ UNCHANGED stepper_vars
    /\ pc = "backup"
    /\ v' = backup_node(v, reward)
    /\ IF v.depth > 0
       THEN /\ bcur' = v.parent
            /\ pc' = "backup_parent"
       ELSE /\ bcur' = Root
            /\ pc' = "end_of_body"
    /\ LeaveDefaultPolicy
    /\ NoDraw
    /\ UNCHANGED <<s0, a, computational_budget, horizon, df, tree, i, reward, cur,
                   front, tree_pre, epoch, rec, saved>>

\* backup(*v.parent, reward), lines 224-226, on a node of the tree
BackupParent ==
    /\ UNCHANGED stepper_vars
    /\ pc = "backup_parent"
    /\ tree' = [tree EXCEPT ![bcur] = backup_node(@, reward)]
    /\ IF tree[bcur].depth > 0
       THEN /\ bcur' = tree[bcur].parent
            /\ pc' = pc
       ELSE /\ bcur' = Root
            /\ pc' = "end_of_body"
    /\ NoDraw
    /\ UNCHANGED <<s0, a, computational_budget, horizon, df, i, v, reward, cur,
                   t, s_t, front, tree_pre, reward_in, steps, terms, epoch, rec, saved>>

\* lines 263, 257: the loop body ends, v and reward are gone, ++i
EndSimulation ==
    /\ UNCHANGED stepper_vars
    /\ pc = "end_of_body"
    /\ i' = i + 1
    /\ v' = b03_node(DefaultState, get_expendable_actions, 0, 0, 0)
    /\ reward' = 0
    /\ cur' = Root
    /\ front' = Root
    /\ tree_pre' = tree
    /\ pc' = "loop"
    /\ NoDraw
    /\ UNCHANGED <<s0, a, computational_budget, horizon, df, tree,
                   t, s_t, bcur, reward_in, steps, terms, epoch, rec, saved>>

\* lines 257, 264: the loop is over and the root has a child to choose
GetBestAction ==
    /\ UNCHANGED stepper_vars
    /\ pc = "loop"
    /\ ~(i < computational_budget)
    /\ NumChildren(tree, Root) > 0
    /\ \E r \in NextDraws :
          /\ a' = get_best_action(tree, r)
          /\ Drawn(r)
    /\ pc' = "done"
    /\ UNCHANGED <<s0, computational_budget, horizon, df, tree, i, v, reward, cur,
                   t, s_t, bcur, front, tree_pre, reward_in, steps, terms,
                   epoch, rec, saved>>

\* lines 257, 264: the loop is over and the root has no child; rand_element of
\* an empty vector and children.at() of an empty vector do not return
GetBestActionEmpty ==
    /\ UNCHANGED stepper_vars
    /\ pc = "loop"
    /\ ~(i < computational_budget)
    /\ NumChildren(tree, Root) = 0
    /\ pc' = "failed"
    /\ NoDraw
    /\ UNCHANGED <<s0, a, computational_budget, horizon, df, tree, i, v, reward, cur,
                   t, s_t, bcur, front, tree_pre, reward_in, steps, terms,
                   epoch, rec, saved>>

\* the same pilot is invoked again on the same state with the same seed
Reinvoke ==
    /\ UNCHANGED stepper_vars
    /\ pc \in {"done", "failed"}
    /\ epoch = 1
    /\ rec
    /\ saved' = [pc |-> pc, tree |-> tree, a |-> a]
    /\ epoch' = 2
    /\ pos' = 1
    /\ pc' = "idle"
    /\ UNCHANGED <<s0, a, computational_budget, horizon, df, tree, i, v, reward, cur,
                   t, s_t, bcur, front, tree_pre, reward_in, steps, terms, rec, log>>

Next ==
    \/ Call
    \/ BeginSimulation
    \/ TreePolicyTerminal
    \/ TreePolicyDescend
    \/ TreePolicyExpand
    \/ DefaultPolicyStep
    \/ DefaultPolicyEnd
    \/ BackupLocal
    \/ BackupParent
    \/ EndSimulation
    \/ GetBestAction
    \/ GetBestActionEmpty

\* The repeated invocation is followed for budgets below the size of the action
\* set: the root is then never fully expanded when tree_policy is entered, so
\* case 2 of tree_policy is not among the steps.
NextReplay ==
    \/ Call
    \/ BeginSimulation
    \/ TreePolicyTerminal
    \/ TreePolicyExpand
    \/ DefaultPolicyStep
    \/ DefaultPolicyEnd
    \/ BackupLocal
    \/ BackupParent
    \/ EndSimulation
    \/ GetBestAction
    \/ GetBestActionEmpty
    \/ Reinvoke

Spec == Init /\ [][Next]_vars

\* calls whose budget lets a second descent see the outcome of a first one
SpecDeep == InitDeep /\ [][Next]_vars

\* operator() is a sequential computation: a step that can be taken is taken
SpecLive == InitLive /\ [][Next]_vars /\ WF_vars(Next)

SpecReplay == InitReplay /\ [][NextReplay]_vars

----------------------------------------------------------------------------
(* heuristic_pilot *)

\* heuristic_pilot::operator() writing a dsigma of 0 inside the dead-band
heuristic_pilot_zeroing(s, u) ==
    [u EXCEPT !.dalpha = kd * (gammadot_ref - s.gammadot), !.dbeta = 0,
              !.dsigma = IF 2 * s.sigma > heuristic_angle_rate_magnitude
                         THEN -heuristic_angle_rate_magnitude
                         ELSE IF 2 * s.sigma < -heuristic_angle_rate_magnitude
                              THEN heuristic_angle_rate_magnitude
                              ELSE 0]

\* heuristic_pilot::operator(): the command afterwards
heuristic_pilot(s, u) ==
    LET th2 == heuristic_angle_rate_magnitude    \* 2 * th
        u1 == [u EXCEPT !.dalpha = kd * (gammadot_ref - s.gammadot), !.dbeta = 0]
        u2 == IF 2 * s.sigma > th2
              THEN [u1 EXCEPT !.dsigma = -heuristic_angle_rate_magnitude] ELSE u1
    IN  IF 2 * s.sigma < -th2
        THEN [u2 EXCEPT !.dsigma = heuristic_angle_rate_magnitude] ELSE u2

\* heuristic_pilot::out_of_range without its else branch
heuristic_out_of_range_keeping(s, u) ==
    [u EXCEPT !.dalpha = 0, !.dbeta = 0,
              !.dsigma = IF s.sigma < SigmaRecover
                         THEN heuristic_angle_rate_magnitude ELSE @]

\* heuristic_pilot::out_of_range: the command afterwards
heuristic_out_of_range(s, u) ==
    [u EXCEPT !.dalpha = 0, !.dbeta = 0,
              !.dsigma = IF s.sigma < SigmaRecover
                         THEN heuristic_angle_rate_magnitude ELSE 0]

----------------------------------------------------------------------------
(* euler_integrator::operator(): the stepper that drives the aircraft *)

get_distance_to_center(s) == ISqrt(s.x * s.x + s.y * s.y)

\* bank angles around the dead-band of heuristic_pilot and around the bound of
\* out_of_range
SigmaStarts == {-2, -1, 0, 1, 2, SigmaRecover - 1, SigmaRecover}

\* the aircraft when the stepper is first called: below or on the ground, at
\* the centre, at the range or just out of it
StepperStates ==
    {[DefaultState EXCEPT !.x = x0, !.z = z0, !.sigma = sg, !.gammadot = gd,
                          !.zdot = -1, !.V = 4] :
        x0 \in {0, CenterRange, CenterRange + 1}, z0 \in {Ground - 1, Ground},
        sg \in SigmaStarts, gd \in {0, 1}}

InitStepper ==
    /\ pc = "stepper"
    /\ pl \in {"b03_uct_pilot", "heuristic_pilot"}
    /\ s0 \in StepperStates
    /\ a \in {beeler_glider_command(0, 0, 0), beeler_glider_command(1, 1, 1)}
    /\ computational_budget \in 0 .. ReplayBudget
    /\ horizon \in 0 .. ReplayHorizon
    /\ df \in 1 .. DfDen
    /\ pl = "b03_uct_pilot" =>
          /\ s0.sigma \in {0, SigmaRecover}
          /\ s0.gammadot = 0
          /\ a = beeler_glider_command(0, 0, 0)
          /\ current_time = 0
          /\ stepper_time_step_width = time_step_width
          /\ stepper_dt = integrator_dt
    /\ pl = "heuristic_pilot" =>
          /\ computational_budget = 0
          /\ horizon = 0
          /\ df = DfDen
    /\ tree = (Root :> b03_node(DefaultState, get_expendable_actions, 0, 0, 0))
    /\ i = 0
    /\ v = b03_node(DefaultState, get_expendable_actions, 0, 0, 0)
    /\ reward = 0
    /\ cur = Root
    /\ t = 0
    /\ s_t = DefaultState
    /\ bcur = Root
    /\ front = Root
    /\ tree_pre = tree
    /\ reward_in = 0
    /\ steps = << >>
    /\ terms = << >>
    /\ epoch = 1
    /\ rec = FALSE
    /\ log = << >>
    /\ pos = 1
    /\ saved = [pc |-> "idle", tree |-> tree, a |-> a]
    /\ current_time \in {0, 1}
    /\ stepper_time_step_width \in 0 .. MaxWidth
    /\ stepper_dt \in 1 .. MaxDt
    /\ state_log = << >>
    /\ sub_steps = 0

\* lines 89-90: out of range, the pilot's recovery command
StepperOutOfRange ==
    /\ pc = "stepper"
    /\ Len(state_log) < MaxSteps
    /\ get_distance_to_center(s0) > CenterRange
    /\ a' = IF pl = "heuristic_pilot"
            THEN heuristic_out_of_range(s0, a) ELSE out_of_range(s0, a)
    /\ pc' = "recovered"
    /\ NoDraw
    /\ UNCHANGED stepper_vars
    /\ UNCHANGED <<s0, computational_budget, horizon, df, tree, i, v, reward, cur,
                   t, s_t, bcur, front, tree_pre, reward_in, steps, terms,
                   epoch, rec, saved>>

\* lines 91-92: in range, b03_uct_pilot::operator() is called
StepperPilot ==
    /\ pc = "stepper"
    /\ Len(state_log) < MaxSteps
    /\ ~(get_distance_to_center(s0) > CenterRange)
    /\ pl = "b03_uct_pilot"
    /\ pc' = "idle"
    /\ NoDraw
    /\ UNCHANGED stepper_vars
    /\ UNCHANGED <<s0, a, computational_budget, horizon, df, tree, i, v, reward, cur,
                   t, s_t, bcur, front, tree_pre, reward_in, steps, terms,
                   epoch, rec, saved>>

\* lines 91-92: in range, heuristic_pilot::operator() is called and returns
StepperHeuristicPilot ==
    /\ pc = "stepper"
    /\ Len(state_log) < MaxSteps
    /\ ~(get_distance_to_center(s0) > CenterRange)
    /\ pl = "heuristic_pilot"
    /\ a' = heuristic_pilot(s0, a)
    /\ pc' = "done"
    /\ NoDraw
    /\ UNCHANGED stepper_vars
    /\ UNCHANGED <<s0, computational_budget, horizon, df, tree, i, v, reward, cur,
                   t, s_t, bcur, front, tree_pre, reward_in, steps, terms,
                   epoch, rec, saved>>

\* lines 96-103: the state (and the wind at its position) go to the log files
StepperSave ==
    /\ pc \in {"done", "recovered"}
    /\ state_log' = Append(state_log, s0)
    /\ pc' = "saved"
    /\ NoDraw
    /\ UNCHANGED <<pl, current_time, stepper_time_step_width, stepper_dt, sub_steps>>
    /\ UNCHANGED <<s0, a, computational_budget, horizon, df, tree, i, v, reward, cur,
                   t, s_t, bcur, front, tree_pre, reward_in, steps, terms,
                   epoch, rec, saved>>

\* the transition made as soon as the pilot has chosen, before the state is saved
StepperTransition_unsaved ==
    /\ pc \in {"done", "recovered"}
    /\ LET next == transition_function(s0, a, current_time,
                                       stepper_time_step_width, stepper_dt)
       IN  /\ s0' = next.s
           /\ current_time' = next.current_time
           /\ sub_steps' = next.n
    /\ pc' = "moved"
    /\ NoDraw
    /\ UNCHANGED <<pl, stepper_time_step_width, stepper_dt, state_log>>
    /\ UNCHANGED <<a, computational_budget, horizon, df, tree, i, v, reward, cur,
                   t, s_t, bcur, front, tree_pre, reward_in, steps, terms,
                   epoch, rec, saved>>

\* line 106: the transition of the aircraft under the command it now holds
StepperTransition ==
    /\ pc = "saved"
    /\ LET next == transition_function(s0, a, current_time,
                                       stepper_time_step_width, stepper_dt)
       IN  /\ s0' = next.s
           /\ current_time' = next.current_time
           /\ sub_steps' = next.n
    /\ pc' = "moved"
    /\ NoDraw
    /\ UNCHANGED <<pl, stepper_time_step_width, stepper_dt, state_log>>
    /\ UNCHANGED <<a, computational_budget, horizon, df, tree, i, v, reward, cur,
                   t, s_t, bcur, front, tree_pre, reward_in, steps, terms,
                   epoch, rec, saved>>

\* line 109: is_in_model is called and what it returns is not used
StepperIsInModel ==
    /\ pc = "moved"
    /\ pc' = "stepper"
    /\ NoDraw
    /\ UNCHANGED stepper_vars
    /\ UNCHANGED <<s0, a, computational_budget, horizon, df, tree, i, v, reward, cur,
                   t, s_t, bcur, front, tree_pre, reward_in, steps, terms,
                   epoch, rec, saved>>

\* The stepper is followed with budgets below the size of the action set, for
\* which case 2 of tree_policy is not among the steps.
NextStepper ==
    \/ StepperOutOfRange
    \/ StepperPilot
    \/ StepperHeuristicPilot
    \/ StepperSave
    \/ StepperTransition
    \/ StepperIsInModel
    \/ Call
    \/ BeginSimulation
    \/ TreePolicyTerminal
    \/ TreePolicyExpand
    \/ DefaultPolicyStep
    \/ DefaultPolicyEnd
    \/ BackupLocal
    \/ BackupParent
    \/ EndSimulation
    \/ GetBestAction
    \/ GetBestActionEmpty

SpecStepper == InitStepper /\ [][NextStepper]_vars


----------------------------------------------------------------------------
(* Properties *)

Min(x, y) == IF x < y THEN x ELSE y

Returned == pc \in {"done", "failed"}

\* the nodes of the tree whose visit count differs from what it was when backup
\* was entered
VisitChanged ==
    {p \in DOMAIN tree : tree[p].number_of_visits # tree_pre[p].number_of_visits}

\* the nodes on the path from the frontier node up to the root, both included
FrontierPath == {SubSeq(front, 1, k) : k \in 0 .. Len(front)}

\* C1: after every completed simulation of one operator() call the root's visit
\* count equals the number of simulations completed so far.
C1_RootVisitsEqualSimulations ==
    (pc = "loop" /\ i >= 1) => tree[Root].number_of_visits = i

\* C2: the backup of a simulation changes the visit count of exactly
\* depth(frontier)+1 nodes of the tree, the frontier node and all its ancestors up
\* to the root, each by +1, and of no other node.
C2_BackupTouchesFrontierPath ==
    pc = "end_of_body" =>
        /\ VisitChanged = FrontierPath
        /\ Cardinality(VisitChanged) = tree[front].depth + 1
        /\ \A p \in VisitChanged :
              tree[p].number_of_visits = tree_pre[p].number_of_visits + 1

\* C3: called on a terminal root state, operator() returns the recovery
\* (out-of-range) action, for every budget, without failing.
C3_TerminalRootYieldsRecovery ==
    (is_terminal(s0) /\ Returned) => (pc = "done" /\ a = out_of_range(s0, a))

\* C4: with a budget of 0 operator() still returns a defined action:
\* get_best_action never indexes into an empty set of root children.
C4_ZeroBudgetReturnsAction ==
    (computational_budget = 0 /\ Returned) => pc = "done"

\* C5: with a non-terminal root state the root has exactly min(k, number of
\* actions) children after k simulations, so that with a budget >= 1 action
\* extraction always has a root child to choose from.
C5_RootGrows ==
    ~is_terminal(s0) =>
        /\ pc \in {"loop", "done", "failed"} =>
              NumChildren(tree, Root) = Min(i, Len(get_expendable_actions))
        /\ (Returned /\ computational_budget >= 1) =>
              (pc = "done" /\ i = computational_budget)

C5_Witness ==
    /\ pc = "done"
    /\ ~is_terminal(s0)
    /\ computational_budget = 4
    /\ NumChildren(tree, Root) = 3

\* C6: the action operator() returns is the incoming action of a root child whose
\* average_reward is maximal among the root's children at the end of the loop; it
\* is one of the three actions, and no child with a strictly smaller
\* average_reward is chosen.
C6_BestActionIsArgmax ==
    pc = "done" =>
        /\ \E k \in 1 .. Len(get_expendable_actions) : a = get_expendable_actions[k]
        /\ \E k \in ChildIndices(tree, Root) :
              /\ a = tree[<<k>>].incoming_action
              /\ \A j \in ChildIndices(tree, Root) :
                    tree[<<j>>].average_reward <= tree[<<k>>].average_reward
        /\ \A k \in ChildIndices(tree, Root) :
              a = tree[<<k>>].incoming_action =>
                  \A j \in ChildIndices(tree, Root) :
                      tree[<<j>>].average_reward <= tree[<<k>>].average_reward

\* the root has three children, the one chosen is not the first one, and another
\* child has a strictly smaller average_reward
C6_Witness ==
    /\ pc = "done"
    /\ NumChildren(tree, Root) = 3
    /\ \E k \in 2 .. 3 :
          /\ a = tree[<<k>>].incoming_action
          /\ \E j \in (1 .. 3) \ {k} :
                tree[<<j>>].average_reward < tree[<<k>>].average_reward

\* C7: after every expansion, for every node of the tree: the node is fully
\* expanded iff its untried-action vector is empty iff its number of children
\* equals the size of its action set.
C7_FullyExpandedIffNoUntried ==
    \A p \in DOMAIN tree :
        /\ is_fully_expanded(tree, p) <=> (Len(tree[p].expendable_actions) = 0)
        /\ (Len(tree[p].expendable_actions) = 0)
              <=> (NumChildren(tree, p) = Len(get_expendable_actions))

\* an expansion below the root has just happened: the root is fully expanded,
\* the new node's parent and the new node are not
C7_Witness ==
    /\ pc = "default_policy"
    /\ Len(front) = 2
    /\ is_fully_expanded(tree, Root)
    /\ Len(tree[Root].expendable_actions) = 0
    /\ ~is_fully_expanded(tree, SubSeq(front, 1, 1))
    /\ Len(tree[SubSeq(front, 1, 1)].expendable_actions) = 2
    /\ Len(tree[front].expendable_actions) = 3

\* the index of the first turn of the rollout that produced a terminal state, or
\* the horizon when none did
FirstTerminalStep ==
    IF \E k \in 1 .. Len(steps) : is_terminal(steps[k])
    THEN (CHOOSE k \in 1 .. Len(steps) :
              /\ is_terminal(steps[k])
              /\ \A m \in 1 .. k - 1 : ~is_terminal(steps[m])) - 1
    ELSE horizon

\* C8: when default_policy with horizon H ends, it has added exactly j reward
\* terms, those of steps 0..j-1, where j is the index of the first step that
\* produced a terminal state, and exactly H terms when no step did.
C8_RolloutTermCount ==
    pc = "backup" =>
        /\ Len(terms) = FirstTerminalStep
        /\ \A k \in 1 .. Len(terms) : terms[k].t = k - 1
        /\ Len(steps) = Min(FirstTerminalStep + 1, horizon)

\* horizon 3, terminal on step 1: one term, from step 0
C8_Witness ==
    /\ pc = "backup"
    /\ horizon = 3
    /\ Len(steps) = 2
    /\ is_terminal(steps[2])
    /\ Len(terms) = 1
    /\ terms[1].t = 0

\* C9: with the same sequence of random draws, two invocations of operator() on
\* the same state with the same configuration and budget build identical trees
\* and return the same action.
C9_Deterministic ==
    (epoch = 2 /\ Returned) =>
        (pc = saved.pc /\ tree = saved.tree /\ a = saved.a)

RECURSIVE SumTerms(_)
SumTerms(trm) ==
    IF trm = << >> THEN 0 ELSE trm[1].r + SumTerms(Tail(trm))

\* C10: with discount factor 1 the return the rollout hands to backup is exactly
\* the unweighted sum of the step rewards collected (0 when the first step
\* terminates or the horizon is 0), with no other contribution.
C10_UndiscountedReturnIsSum ==
    (pc = "backup" /\ df = DfDen) => reward = (DfDen ^ RollCap) * SumTerms(terms)

\* the point of tree_policy where get_best_uct_child is called on the node at
\* path cur, which evaluates get_uct_score on each of its children
ScoresEvaluated ==
    /\ pc = "tree_policy"
    /\ ~is_terminal(tree[cur].s)
    /\ is_fully_expanded(tree, cur)

\* C11: get_uct_score is only evaluated on a child whose visit count is > 0 and
\* whose parent's visit count is >= 1, so that nchild != 0 and log(nparent) is
\* defined, for every budget and every sequence of draws.
C11_ScoreArgumentsVisited ==
    ScoresEvaluated =>
        \A k \in ChildIndices(tree, cur) :
            /\ tree[Append(cur, k)].number_of_visits > 0
            /\ tree[Append(cur, k)].parent = cur
            /\ tree[tree[Append(cur, k)].parent].number_of_visits >= 1

\* the scores of the root's three children are about to be evaluated in the
\* fourth simulation, one child never visited again since it was created
C11_Witness ==
    /\ ScoresEvaluated
    /\ cur = Root
    /\ i = 3
    /\ NumChildren(tree, Root) = 3
    /\ \E k \in 1 .. 3 : tree[<<k>>].number_of_visits = 1

\* C12: operator() never modifies the state handed in: the root holds a copy of
\* it, the simulated transitions act on copies, and the only thing written for the
\* caller is the command, by the one step that follows the budget loop.
C12_StateNeverModified ==
    /\ [](pc # "idle" => tree[Root].s = s0)
    /\ [][/\ s0' = s0
          /\ (a' # a \/ (pc' = "done" /\ pc # "done")) =>
                /\ pc = "loop"
                /\ ~(i < computational_budget)
                /\ pc' = "done"
                /\ \E k \in ChildIndices(tree, Root) : a' = tree[<<k>>].incoming_action
         ]_vars

\* operator() has returned a command other than the one it was handed, after
\* simulated transitions that produced states different from the caller's
C12_Witness ==
    /\ pc = "done"
    /\ a # beeler_glider_command(0, 0, 0)
    /\ tree[Root].s = s0
    /\ \A k \in ChildIndices(tree, Root) : tree[<<k>>].s # s0
    /\ NumChildren(tree, Root) = 3

\* C13: no tree state carries over between two calls of operator(): at the start
\* of every call the tree is a single root at depth 0, holding the state handed
\* in, with no child and the full set of untried actions, whatever the calls
\* before it built.
C13_FreshTreeEachCall ==
    (pc = "loop" /\ i = 0) =>
        /\ DOMAIN tree = {Root}
        /\ tree[Root].depth = 0
        /\ tree[Root].s = s0
        /\ NumChildren(tree, Root) = 0
        /\ tree[Root].expendable_actions = get_expendable_actions

\* the second call starts after a first call that left a tree of three nodes
C13_Witness ==
    /\ epoch = 2
    /\ pc = "loop"
    /\ i = 0
    /\ Cardinality(DOMAIN saved.tree) = 3
    /\ DOMAIN tree = {Root}

\* C14: the stepper sends a state to the recovery command exactly when the
\* planner's is_terminal holds of it, so that operator() is never called by the
\* stepper on a state the planner takes for terminal.
C14_SameTerminality ==
    /\ pc = "idle" => ~is_terminal(s0)
    /\ pc = "recovered" => is_terminal(s0)

\* C15: every call of operator() ends, after exactly computational_budget turns
\* of {tree_policy, default_policy, backup}: every descent of tree_policy ends at
\* a node the rollout starts from, every rollout ends after at most horizon
\* steps, and every backup ends at the root.
C15_TerminatesAfterBudget ==
    /\ <>Returned
    /\ [](Returned => i = computational_budget)
    /\ [](i <= computational_budget)
    /\ [](pc = "default_policy" => t <= horizon)
    /\ [](pc = "tree_policy" => Len(cur) <= i)
    /\ [](pc = "end_of_body" => bcur = Root)

\* a call with the largest budget has ended, the last descent having gone
\* through the root into a child
C15_Witness ==
    /\ pc = "done"
    /\ computational_budget = MaxBudget
    /\ i = MaxBudget
    /\ \E p \in DOMAIN tree : Len(p) = 2

\* C16: each simulation adds at most one node to the tree: exactly one when the
\* descent ends at a non-terminal node that is not fully expanded, none when it
\* ends at a terminal node; after k simulations the tree has at most k+1 nodes
\* and no node deeper than k.
C16_OneNodePerSimulation ==
    /\ [](pc = "loop" =>
            /\ Cardinality(DOMAIN tree) <= i + 1
            /\ \A p \in DOMAIN tree : tree[p].depth <= i /\ tree[p].depth = Len(p))
    /\ [][pc # "idle" =>
            IF pc = "tree_policy" /\ pc' = "default_policy"
            THEN IF is_terminal(tree[cur].s)
                 THEN DOMAIN tree' = DOMAIN tree
                 ELSE /\ ~is_fully_expanded(tree, cur)
                      /\ DOMAIN tree \subseteq DOMAIN tree'
                      /\ Cardinality(DOMAIN tree') = Cardinality(DOMAIN tree) + 1
            ELSE DOMAIN tree' = DOMAIN tree
         ]_vars

\* four simulations from a non-terminal root, three of which added a node and one
\* of which ended at a terminal child and added none
C16_Witness ==
    /\ pc = "loop"
    /\ i = 4
    /\ ~is_terminal(s0)
    /\ Cardinality(DOMAIN tree) = 4

\* C17: tree_policy tests terminality before the expansion state: a node whose
\* state is terminal is returned as the frontier without being expanded, even
\* with untried actions left, so that no node with a terminal state has a child.
C17_TerminalNodesAreLeaves ==
    /\ \A p \in DOMAIN tree :
          is_terminal(tree[p].s) => NumChildren(tree, p) = 0
    /\ (pc \in {"default_policy", "backup"} /\ is_terminal(tree[front].s)) =>
          /\ v = tree[front]
          /\ NumChildren(tree, front) = 0

\* the descent went from a non-terminal root into a terminal child created by an
\* earlier simulation, and stopped there although all its actions are untried
C17_Witness ==
    /\ pc = "default_policy"
    /\ i = 3
    /\ Len(front) = 1
    /\ is_terminal(tree[front].s)
    /\ Len(tree[front].expendable_actions) = Len(get_expendable_actions)
    /\ NumChildren(tree, front) = 0
    /\ Cardinality(DOMAIN tree) = 4

\* C18: tree_policy goes down into a child only from a non-terminal, fully
\* expanded node, and the child it goes into has the maximal UCT score among the
\* children of that node, the scores being those of the visit counts and returns
\* of that moment; a child with a strictly lower score is never selected.
C18_DescentTakesBestScore ==
    [][(pc = "tree_policy" /\ cur' # cur) =>
          /\ ~is_terminal(tree[cur].s)
          /\ is_fully_expanded(tree, cur)
          /\ cur' \in {Append(cur, k) : k \in ChildIndices(tree, cur)}
          /\ tree' = tree
          /\ \A k \in ChildIndices(tree, cur) :
                get_uct_score(tree, Append(cur, k)) <= get_uct_score(tree, cur')
      ]_vars

\* the descent is in a child of the root that is not the first one and whose
\* score is strictly above the score of another child
C18_Witness ==
    /\ pc = "tree_policy"
    /\ Len(cur) = 1
    /\ cur # <<1>>
    /\ \E k \in ChildIndices(tree, Root) :
          get_uct_score(tree, <<k>>) < get_uct_score(tree, cur)

\* C19: for a simulation with rollout return R and frontier at depth d, backup
\* adds df^j * R to the accumulated return of the tree node at depth j of the
\* path from the frontier to the root, for every j in 0..d, the frontier node
\* included, and leaves the accumulated return of every other node unchanged.
C19_BackupAddsDiscountedReturn ==
    pc = "end_of_body" =>
        \A p \in DOMAIN tree :
            tree[p].average_reward =
                tree_pre[p].average_reward
                  + (IF p \in FrontierPath THEN Pow(Len(p), DepthCap) * reward ELSE 0)

\* C20: every node has at most as many children as actions in its action set
\* (3), and a node's vector of untried actions never grows: create_new_child
\* removes exactly one untried action and adds exactly one child, and no other
\* operation of a call changes either collection.
C20_ChildrenBoundedUntriedShrinks ==
    /\ [](\A p \in DOMAIN tree :
            /\ NumChildren(tree, p) <= Len(tree[p].actions)
            /\ Len(tree[p].actions) = Len(get_expendable_actions))
    /\ [][pc # "idle" =>
            \A p \in DOMAIN tree :
                /\ p \in DOMAIN tree'
                /\ IF pc = "tree_policy" /\ pc' = "default_policy" /\ tree' # tree /\ p = cur
                   THEN /\ Len(tree'[p].expendable_actions)
                              = Len(tree[p].expendable_actions) - 1
                        /\ \E k \in 1 .. Len(tree[p].expendable_actions) :
                              /\ tree'[p].expendable_actions
                                    = RemoveAt(tree[p].expendable_actions, k)
                              /\ tree'[front'].incoming_action
                                    = tree[p].expendable_actions[k]
                        /\ ChildIndices(tree', p)
                              = ChildIndices(tree, p) \cup {NumChildren(tree, p) + 1}
                   ELSE /\ tree'[p].expendable_actions = tree[p].expendable_actions
                        /\ ChildIndices(tree', p) = ChildIndices(tree, p)
         ]_vars

\* the root has just lost its last untried action to its third child
C20_Witness ==
    /\ pc = "default_policy"
    /\ front = <<3>>
    /\ Len(tree[Root].expendable_actions) = 0
    /\ NumChildren(tree, Root) = Len(tree[Root].actions)
    /\ Len(tree[front].expendable_actions) = 3

\* the number of parent back-references followed from the node at path p up to
\* the root
RECURSIVE ParentHops(_, _)
ParentHops(tr, p) ==
    IF p = Root THEN 0 ELSE 1 + ParentHops(tr, tr[p].parent)

\* C21: the root has depth 0 and every node created by expansion has the depth
\* of its parent plus 1, so that a node's depth is the number of parent
\* back-references followed to reach the root; backup from a node at depth d
\* makes exactly d recursive calls on parents.
C21_DepthIsDistanceToRoot ==
    /\ tree[Root].depth = 0
    /\ \A p \in DOMAIN tree \ {Root} :
          /\ tree[p].parent \in DOMAIN tree
          /\ tree[p].depth = tree[tree[p].parent].depth + 1
          /\ tree[p].depth = ParentHops(tree, p)
    /\ pc \in {"default_policy", "backup"} => v.depth = ParentHops(tree, front)
    /\ pc = "backup_parent" =>
          Cardinality(VisitChanged) + tree[bcur].depth + 1 = v.depth
    /\ pc = "end_of_body" => Cardinality(VisitChanged) = v.depth

\* backup has ended after two recursive calls, from a node at depth 2
C21_Witness ==
    /\ pc = "end_of_body"
    /\ v.depth = 2
    /\ ParentHops(tree, front) = 2
    /\ Cardinality(VisitChanged) = 2

\* the elements of a vector, as a set
Elements(vec) == {vec[k] : k \in 1 .. Len(vec)}

\* the incoming actions of the children of the node at path p
IncomingActions(tr, p) ==
    {tr[Append(p, k)].incoming_action : k \in ChildIndices(tr, p)}

\* C22: the children of a node have pairwise distinct incoming actions, a
\* child's incoming action is the action removed from its parent's untried
\* actions when it was created, and a node's untried actions together with its
\* children's incoming actions are a partition of the action set.
C22_ActionsPartitioned ==
    /\ [](\A p \in DOMAIN tree :
            /\ \A j, k \in ChildIndices(tree, p) :
                  tree[Append(p, j)].incoming_action = tree[Append(p, k)].incoming_action
                      => j = k
            /\ \A j, k \in 1 .. Len(tree[p].expendable_actions) :
                  tree[p].expendable_actions[j] = tree[p].expendable_actions[k] => j = k
            /\ Elements(tree[p].expendable_actions) \cap IncomingActions(tree, p) = {}
            /\ Elements(tree[p].expendable_actions) \cup IncomingActions(tree, p)
                  = Elements(get_expendable_actions))
    /\ [][(pc = "tree_policy" /\ tree' # tree) =>
            /\ tree'[front'].incoming_action \in Elements(tree[cur].expendable_actions)
            /\ Elements(tree'[cur].expendable_actions)
                  = Elements(tree[cur].expendable_actions)
                      \ {tree'[front'].incoming_action}
            /\ IncomingActions(tree', cur)
                  = IncomingActions(tree, cur) \cup {tree'[front'].incoming_action}
         ]_vars

\* the root is fully expanded with its children in another order than the
\* actions of the action set, and one child has a child and two untried actions
C22_Witness ==
    /\ NumChildren(tree, Root) = 3
    /\ tree[<<1>>].incoming_action = get_expendable_actions[3]
    /\ tree[<<2>>].incoming_action = get_expendable_actions[1]
    /\ \E k \in 1 .. 3 :
          /\ NumChildren(tree, <<k>>) = 1
          /\ Len(tree[<<k>>].expendable_actions) = 2
          /\ tree[<<k, 1>>].incoming_action \notin Elements(tree[<<k>>].expendable_actions)

\* the pointer `parent` of a node refers to the tree node at path q, where that
\* node is stored now
RefersTo(node, q) ==
    /\ node.parent = q
    /\ q \in DOMAIN tree
    /\ tree[q].address = node.parent_address

\* C23: parent back-references never go stale: whenever backup follows the
\* parent reference of a node, it refers to the live tree node whose children
\* hold that node, although the children are held by value in a vector that may
\* move its elements when a child is pushed.
C23_ParentReferencesLive ==
    /\ \A p \in DOMAIN tree \ {Root} :
          RefersTo(tree[p], SubSeq(p, 1, Len(p) - 1))
    /\ (pc = "backup" /\ v.depth > 0) =>
          RefersTo(v, SubSeq(front, 1, Len(front) - 1))
    /\ pc = "backup_parent" =>
          /\ bcur \in FrontierPath \ {front}
          /\ tree[bcur].depth > 0 => RefersTo(tree[bcur], SubSeq(bcur, 1, Len(bcur) - 1))

\* backup is about to follow the parent reference of a node below a child of
\* the root whose storage was moved twice, when its two siblings were pushed
C23_Witness ==
    /\ pc = "backup"
    /\ v.depth = 2
    /\ tree[v.parent].address = 2
    /\ v.parent_address = 2
    /\ RefersTo(tree[v.parent], Root)

\* C24: in every step of the stepper exactly one of the pilot's two entry points
\* is called, out_of_range when the distance of the aircraft to the centre is
\* above 1200 and operator() otherwise, and the step goes in the order pilot,
\* log, transition, validity check; the transition uses the command chosen in the
\* same step.
C24_StepperOrder ==
    [][/\ (pc = "stepper" /\ pc' # pc) =>
             IF get_distance_to_center(s0) > CenterRange
             THEN /\ pc' = "recovered"
                  /\ a' \in {out_of_range(s0, a), heuristic_out_of_range(s0, a)}
             ELSE \/ pl = "b03_uct_pilot" /\ pc' = "idle" /\ a' = a
                  \/ pl = "heuristic_pilot" /\ pc' = "done" /\ a' = heuristic_pilot(s0, a)
       /\ (pc \in {"done", "recovered"} /\ pc' # pc) =>
             /\ pc' = "saved"
             /\ state_log' = Append(state_log, s0)
       /\ (pc = "saved" /\ pc' # pc) =>
             /\ pc' = "moved"
             /\ s0' = transition_function(s0, a, current_time,
                                          stepper_time_step_width, stepper_dt).s
       /\ (pc = "moved" /\ pc' # pc) => pc' = "stepper"
       /\ pc \in {"done", "recovered", "saved", "moved"} => a' = a
       /\ pc # "saved" => (s0' = s0 /\ current_time' = current_time)
       /\ pc \notin {"done", "recovered"} => state_log' = state_log
      ]_vars

\* two steps have been made, the first through operator() and the second
\* through out_of_range, each saved before its transition
C24_Witness ==
    /\ pc = "stepper"
    /\ Len(state_log) = 2
    /\ ~(get_distance_to_center(state_log[1]) > CenterRange)
    /\ get_distance_to_center(state_log[2]) > CenterRange
    /\ a = out_of_range(state_log[2], a)
    /\ s0 = transition_function(state_log[2], a, state_log[2].time,
                                stepper_time_step_width, stepper_dt).s
    /\ s0 # state_log[2]

\* the command both out_of_range are said to write on state s for a pilot whose
\* angle_rate_magnitude is arm
RecoveryCommand(s, arm) ==
    beeler_glider_command(0, 0, IF s.sigma < SigmaRecover THEN arm ELSE 0)

\* C25: the recovery action is the same function of the state in both pilots:
\* b03_uct_pilot::out_of_range and heuristic_pilot::out_of_range set dalpha = 0,
\* dbeta = 0, and dsigma = +angle_rate_magnitude when sigma < 0.4 and 0 otherwise;
\* they overwrite the three fields of the command and leave the state unchanged.
C25_SameRecoveryInBothPilots ==
    [][(pc = "stepper" /\ pc' = "recovered") =>
          /\ s0' = s0
          /\ pl = "b03_uct_pilot" => a' = RecoveryCommand(s0, angle_rate_magnitude)
          /\ pl = "heuristic_pilot" =>
                a' = RecoveryCommand(s0, heuristic_angle_rate_magnitude)
          /\ out_of_range(s0, a) = RecoveryCommand(s0, angle_rate_magnitude)
          /\ heuristic_out_of_range(s0, a)
                = RecoveryCommand(s0, heuristic_angle_rate_magnitude)
      ]_vars

\* heuristic_pilot::out_of_range has been called a second time, on a bank angle
\* its first command took above the bound, and has replaced that command by the
\* neutral one
C25_Witness ==
    /\ pc = "recovered"
    /\ pl = "heuristic_pilot"
    /\ Len(state_log) = 1
    /\ state_log[1].sigma < SigmaRecover
    /\ s0.sigma >= SigmaRecover
    /\ a = beeler_glider_command(0, 0, 0)

\* C26: transition_function applies the command to the state exactly once,
\* before any sub-step, then makes exactly n sub-steps, n the smallest
\* non-negative integer with n * dt >= time_step_width; when it returns the clock
\* has advanced by n * dt and, when n >= 1, the time of the state is the clock.
C26_TransitionSubSteps ==
    [][(pc = "saved" /\ pc' = "moved") =>
          LET n == sub_steps'
              commanded == apply_command(s0, a)
          IN  /\ n >= 0
              /\ n * stepper_dt >= stepper_time_step_width
              /\ n > 0 => (n - 1) * stepper_dt < stepper_time_step_width
              /\ current_time' = current_time + n * stepper_dt
              /\ n >= 1 => s0'.time = current_time'
              /\ n = 0 => s0' = commanded
              /\ s0'.sigma = s0.sigma + a.dsigma
              /\ s0'.alpha = s0.alpha + a.dalpha
              /\ s0'.beta = s0.beta + a.dbeta
              /\ s0'.z = s0.z - n * stepper_dt * (Abs(commanded.sigma) + Abs(commanded.alpha))
      ]_vars

\* a transition of two sub-steps whose last one went past the step width, under
\* a command that changed the bank angle, from a clock ahead of the state's time
C26_Witness ==
    /\ pc = "moved"
    /\ sub_steps = 2
    /\ stepper_dt = 2
    /\ stepper_time_step_width = 3
    /\ Len(state_log) = 1
    /\ state_log[1].time = 0
    /\ current_time = 5
    /\ s0.time = 5
    /\ s0.sigma # state_log[1].sigma
    /\ s0.z # state_log[1].z

\* C27: heuristic_pilot::operator() always overwrites dalpha and sets dbeta to
\* 0, and writes dsigma only outside the dead-band: -angle_rate_magnitude when
\* sigma > +0.5 * angle_rate_magnitude, +angle_rate_magnitude when
\* sigma < -0.5 * angle_rate_magnitude, and otherwise dsigma keeps the value the
\* command held before the call; the state is not modified.
C27_DeadBandKeepsDsigma ==
    [][(pc = "stepper" /\ pc' = "done" /\ pl = "heuristic_pilot") =>
          /\ s0' = s0
          /\ a'.dalpha = kd * (gammadot_ref - s0.gammadot)
          /\ a'.dbeta = 0
          /\ 2 * s0.sigma > heuristic_angle_rate_magnitude
                => a'.dsigma = -heuristic_angle_rate_magnitude
          /\ 2 * s0.sigma < -heuristic_angle_rate_magnitude
                => a'.dsigma = heuristic_angle_rate_magnitude
          /\ (/\ 2 * s0.sigma <= heuristic_angle_rate_magnitude
              /\ 2 * s0.sigma >= -heuristic_angle_rate_magnitude)
                => a'.dsigma = a.dsigma
      ]_vars

\* the heuristic pilot has answered for a bank angle inside the dead-band: the
\* flight path rate was non-zero and dalpha was overwritten, dbeta was zeroed,
\* and dsigma still holds the non-zero value the command came in with
C27_Witness ==
    /\ pc = "done"
    /\ pl = "heuristic_pilot"
    /\ state_log = << >>
    /\ s0.sigma = 1
    /\ s0.gammadot = 1
    /\ a.dalpha = -kd
    /\ a.dbeta = 0
    /\ a.dsigma = 1

====
